---------------------------- MODULE Spec2Model ----------------------------
(***************************************************************************)
(* A model of the bifrost gateway: the slot tracker (slots_tracker.rs),    *)
(* the schedule tracker (schedule_tracking.rs), the leader tracker         *)
(* (tracker/leader_tracker.rs), the TPU connection pool (manager.rs) and   *)
(* the session handler (session.rs).                                       *)
(*                                                                         *)
(* Slots are u64 in the source.  The model keeps the width, scaled: a slot *)
(* is a number below SlotModulus and additions wrap or panic as the build  *)
(* profile (overflow_checks) decides.                                      *)
(***************************************************************************)
EXTENDS Integers, Sequences, FiniteSets, TLC

\* ------------------------------------------------------------------ bounds

\* The scaled 2^64: slots are 0 .. SlotModulus - 1.
SlotModulus == 256

\* Notifications delivered to the slot listener in the adversarial feeds.
MaxEvents == 3

\* Notifications of a well-formed stream (more than the ring holds).
MaxStream == 100

\* Slots per epoch reported by get_epoch_info (432000 on mainnet).
EpochLen == 4

\* Notifications delivered to the listener when it runs beside the schedule tracker.
MaxSchedEvents == 2

\* Concurrent get_or_create_connection tasks.
NumDialers == 2

\* QUIC connections made in one run.
MaxConnections == 3

\* close_all calls in one run.
MaxCloseAll == 1

\* rotate_epoch calls on the schedule tracker taken alone.
MaxRotateCalls == 3

\* ------------------------------------------------------- program constants

MAX_SLOT_SKIP_DISTANCE == 48

RECENT_LEADER_SLOTS_CAPACITY == 48

U64_MAX == SlotModulus - 1

\* ------------------------------------------------------------------- state

VARIABLES
  overflow_checks,      \* build profile: TRUE = arithmetic overflow panics (debug), FALSE = wraps (release)
  recent_events,        \* SlotsTracker.0: the ring of recent SlotEvents, oldest first
  current_slot,         \* SlotsTracker.1: the cached estimate
  listener,             \* the slot-listener task: its position and locals
  feed,                 \* the upstream notification stream: what it has delivered so far
  curr_epoch_slot_start,  \* ScheduleTracker
  next_epoch_slot_start,
  curr_schedule,        \* slot index -> identity (NoLeader: no entry)
  next_schedule,
  slots_in_epoch,
  leader_sockets,       \* identity -> socket (NoSocket: no entry)
  refresher,            \* the socket-refresh task: its position and the result of its last refresh
  locks,                \* the RwLocks of LeaderTracker: slots, schedule, sockets
  reader,               \* a task inside get_future_leaders: its position and what it has read
  published,            \* history: the (curr_start, next_start, curr_map) values left by construction and by each rotation
  connections,          \* TpuConnectionManager.connections: socket string -> entry
  quic,                 \* the QUIC connections made so far and those with a close reason
  dialers,              \* the tasks inside get_or_create_connection
  session               \* a WebTransport session task: handle_session and send_transaction

slotVars == <<recent_events, current_slot>>

scheduleVars == <<curr_epoch_slot_start, next_epoch_slot_start, curr_schedule,
                  next_schedule, slots_in_epoch, published>>

trackerVars == <<scheduleVars, leader_sockets, refresher, locks, reader>>

poolVars == <<connections, quic, dialers>>

vars == <<overflow_checks, slotVars, listener, feed, trackerVars, poolVars, session>>

\* ------------------------------------------------------------ SlotsTracker

\* SlotEvent::Start(slot) / SlotEvent::End(slot)
SlotEvent(is_start, slot) == [is_start |-> is_start, slot |-> slot]

\* The comparator of sort_by: slot ascending, then Start (is_start = true) before End.
EventLess(a, b) ==
  \/ a.slot < b.slot
  \/ a.slot = b.slot /\ a.is_start /\ ~b.is_start

RECURSIVE InsertSorted(_, _)
InsertSorted(e, s) ==
  IF s = <<>> THEN <<e>>
  ELSE IF EventLess(e, Head(s)) THEN <<e>> \o s
  ELSE <<Head(s)>> \o InsertSorted(e, Tail(s))

\* recent_slots.sort_by(..): a stable sort; events that compare equal are identical.
RECURSIVE SortEvents(_)
SortEvents(s) ==
  IF s = <<>> THEN <<>>
  ELSE InsertSorted(s[Len(s)], SortEvents(SubSeq(s, 1, Len(s) - 1)))

\* iter().rposition(|e| e.slot() <= cap): the greatest 0-based index, or -1 for None.
RPosition(sorted, cap) ==
  LET hits == {i \in 1..Len(sorted) : sorted[i].slot <= cap}
  IN  IF hits = {} THEN -1 ELSE (CHOOSE i \in hits : \A j \in hits : j <= i) - 1

\* u64 addition: the wrapped sum and whether it overflowed.
WrappingAdd(a, b) == (a + b) % SlotModulus

Overflows(a, b) == a + b >= SlotModulus

\* slot.saturating_add(1)
SaturatingSucc(slot) == IF slot + 1 >= SlotModulus THEN U64_MAX ELSE slot + 1

\* The value of the selected event: a Start gives its slot, an End the next slot.
SlotOfEventMutant(e) == IF e.is_start THEN e.slot ELSE (IF e.slot = 0 THEN 0 ELSE e.slot - 1)

SlotOfEvent(e) == IF e.is_start THEN e.slot ELSE SaturatingSucc(e.slot)

\* The index the estimator selects without the outlier filter (the greatest).
SelectIndexMutant(sorted, cap) == Len(sorted) - 1

SelectIndex(sorted, cap) == RPosition(sorted, cap)

\* estimate_current_slot over a non-empty ring.  panic: the call aborts (an
\* overflow under overflow checks, or expect("no reasonable slot")).
EstimateCurrentSlot(events, checks) ==
  LET sorted       == SortEvents(events)
      max_index    == Len(sorted) - 1
      median_index == max_index \div 2
      median_slot  == sorted[median_index + 1].slot
      ovf1         == Overflows(median_slot, max_index - median_index)
      expected     == WrappingAdd(median_slot, max_index - median_index)
      ovf2         == Overflows(expected, MAX_SLOT_SKIP_DISTANCE)
      cap          == WrappingAdd(expected, MAX_SLOT_SKIP_DISTANCE)
      idx          == SelectIndex(sorted, cap)
  IN  IF checks /\ (ovf1 \/ ovf2)
        THEN [panic |-> TRUE, idx |-> -1, slot |-> 0]
      ELSE IF idx < 0
        THEN [panic |-> TRUE, idx |-> -1, slot |-> 0]
      ELSE [panic |-> FALSE, idx |-> idx, slot |-> SlotOfEvent(sorted[idx + 1])]

\* The kinds of SlotUpdate the upstream sends.
AcceptedKindsMutant == {"FirstShredReceived", "Completed", "CreatedBank"}

AcceptedKinds == {"FirstShredReceived", "Completed"}

IgnoredKinds == {"CreatedBank"}

SlotUpdate(kind, slot) == [kind |-> kind, slot |-> slot]

\* push_back, then pop_front while the ring is over capacity.
RECURSIVE Evict(_)
Evict(q) == IF Len(q) > RECENT_LEADER_SLOTS_CAPACITY THEN Evict(Tail(q)) ELSE q

\* SlotsTracker::record: the ring and the cached slot it leaves, and how it ends:
\* "ignored" (None), "ok" (Some) or "panic" (the estimator aborted after the push).
RecordResult(events, cached, update, checks) ==
  IF update.kind \notin AcceptedKinds
    THEN [events |-> events, slot |-> cached, outcome |-> "ignored"]
  ELSE
    LET pushed == Evict(Append(events, SlotEvent(update.kind = "FirstShredReceived", update.slot)))
        est    == EstimateCurrentSlot(pushed, checks)
    IN  IF est.panic
          THEN [events |-> pushed, slot |-> cached, outcome |-> "panic"]
        ELSE [events |-> pushed, slot |-> est.slot, outcome |-> "ok"]

\* --------------------------------------------------------- ScheduleTracker

Identities == {"A", "B", "C"}

IdentityAt(n) == CASE n % 3 = 0 -> "A" [] n % 3 = 1 -> "B" [] OTHER -> "C"

NoLeader == "none"

NoSocket == "unknown"

SlotIndices == 0 .. (EpochLen - 1)

\* HashMap::new() / std::mem::take: the map with no entry.
EmptySchedule == [i \in SlotIndices |-> NoLeader]

IsEmptySchedule(m) == \A i \in DOMAIN m : m[i] = NoLeader

\* The cluster's leader schedule of the epoch that starts at `slot`, as
\* get_leader_schedule returns it and fetch_schedule inverts it: runs of two
\* slot indices per identity, differing from one epoch to the next.
ClusterSchedule(slot) ==
  [i \in SlotIndices |-> IdentityAt((i \div 2) + (slot \div EpochLen) + 2)]

\* curr_schedule.get(&slot_index)
GetLeaderForSlotIndexMutant(schedule, slot_index) ==
  IF 0 \in DOMAIN schedule THEN schedule[0] ELSE NoLeader

GetLeaderForSlotIndex(schedule, slot_index) ==
  IF slot_index \in DOMAIN schedule THEN schedule[slot_index] ELSE NoLeader

\* slot_to_index: the index in the current epoch, or -1 for None.
SlotToIndexMutant(slot, curr_start, next_start) ==
  IF slot < curr_start THEN -1
  ELSE IF slot > next_start THEN -1
  ELSE slot - curr_start

SlotToIndex(slot, curr_start, next_start) ==
  IF slot < curr_start THEN -1
  ELSE IF slot >= next_start THEN -1
  ELSE slot - curr_start

\* The state ScheduleTracker::new leaves when get_epoch_info places the cluster
\* in the epoch that starts at epoch_start: both schedules fetched.
ScheduleConstructedAt(epoch_start) ==
  /\ slots_in_epoch = EpochLen
  /\ curr_epoch_slot_start = epoch_start
  /\ next_epoch_slot_start = epoch_start + EpochLen
  /\ curr_schedule = ClusterSchedule(epoch_start)
  /\ next_schedule = ClusterSchedule(epoch_start + EpochLen)
  /\ published = {<<epoch_start, epoch_start + EpochLen, ClusterSchedule(epoch_start)>>}

\* The gateway starts in the epoch [EpochLen, 2 * EpochLen).
ScheduleConstructed == ScheduleConstructedAt(EpochLen)

\* ----------------------------------------------------------- LeaderTracker

Unlocked == [writer |-> FALSE, readers |-> {}]

\* tokio RwLock: a read guard is granted while no write guard is held.
ReadLockFreeMutant(l) == TRUE

ReadLockFree(l) == ~l.writer

\* A write guard is granted while no guard is held.
WriteLockFreeMutant(l) == TRUE

WriteLockFree(l) == ~l.writer /\ l.readers = {}

ReaderIdle ==
  [pc |-> "idle", start |-> 0, end |-> 0, curr_slot |-> 0,
   curr_start |-> 0, next_start |-> 0, schedule |-> EmptySchedule,
   saw_schedule |-> FALSE, leaders |-> <<>>,
   i |-> 0, seen |-> {}, targets |-> {}, sockets_read |-> {}]

\* The socket-refresh task of Server::run, about to call update_leader_sockets.
RefresherIdle == [pc |-> "call", last |-> "none"]

\* The state LeaderTracker::new leaves.
TrackerConstructed ==
  /\ ScheduleConstructed
  /\ leader_sockets = [id \in Identities |-> NoSocket]
  /\ refresher = RefresherIdle
  /\ locks = [slots |-> Unlocked, schedule |-> Unlocked, sockets |-> Unlocked]
  /\ reader = ReaderIdle

\* An entry of the connections table: none, Connection { conn: None } (the
\* sentinel of a dial in progress) or Connection { conn: Some(c) }, c a number.
Absent == [present |-> FALSE, conn |-> 0]

Pending == [present |-> TRUE, conn |-> 0]

DialerIdle == [pc |-> "idle", validator |-> "", reserved |-> FALSE, conn |-> 0,
               result |-> "none"]

SessionIdle ==
  [pc |-> "accept_bi", payload |-> "", leaders |-> <<>>, i |-> 0, conn |-> 0,
   tx_sent |-> FALSE, delivered |-> {}, result |-> "none", reply |-> "none",
   streams |-> <<>>]

\* The socket strings update_leader_sockets can publish.
PoolSockets == {"10.0.0.1:8001", "10.0.0.2:8001", "fe80::3:8001"}

\* The tasks the prewarmer has spawned to call get_or_create_connection.
Dialers == 1 .. NumDialers

\* The state TpuConnectionManager::new leaves, with no session stream open.
PoolConstructed ==
  /\ connections = [s \in PoolSockets |-> Absent]
  /\ quic = [made |-> 0, closed |-> {}, shutdown |-> {}, close_alls |-> 0]
  /\ dialers = [t \in Dialers |-> DialerIdle]
  /\ session = SessionIdle

GatewayConstructed == TrackerConstructed /\ PoolConstructed

ListenerIdle == [pc |-> "idle", last |-> "none", curr_slot |-> 0, rotated |-> FALSE,
                 pre_curr |-> 0, pre_next |-> 0, fetched |-> "none",
                 pre_curr_map |-> EmptySchedule, pre_next_map |-> EmptySchedule,
                 query |-> -1, index |-> -1, kind |-> "none"]

\* if curr_slot == 0 { return vec![] }
NoSlotYetMutant(slot) == FALSE

NoSlotYet(slot) == slot = 0

\* for i in start..end: the range is exhausted.
LoopDoneMutant(i, end) == i > end

LoopDone(i, end) == i >= end

\* !seen.insert(leader_pubkey.to_string()): the identity is already in the set.
AlreadySeenMutant(seen, leader) == FALSE

AlreadySeen(seen, leader) == leader \in seen

\* The body of the loop of get_future_leaders(start, end), from index i on:
\* acc holds the output so far and the identities seen.
RECURSIVE FutureLeadersLoop(_, _, _, _, _, _, _, _)
FutureLeadersLoop(i, end, slot, curr_start, next_start, schedule, sockets, acc) ==
  IF LoopDone(i, end) THEN acc.leaders
  ELSE IF slot + i >= SlotModulus THEN acc.leaders        \* checked_add: None
  ELSE IF slot + i >= next_start THEN acc.leaders
  ELSE
    LET target == slot + i
        idx    == SlotToIndex(target, curr_start, next_start)
        leader == GetLeaderForSlotIndex(schedule, idx)
        skip   == FutureLeadersLoop(i + 1, end, slot, curr_start, next_start,
                                    schedule, sockets, acc)
    IN  IF idx < 0 THEN skip
        ELSE IF leader = NoLeader THEN skip
        ELSE IF AlreadySeen(acc.seen, leader) THEN skip
        ELSE IF sockets[leader] # NoSocket
          THEN FutureLeadersLoop(i + 1, end, slot, curr_start, next_start, schedule, sockets,
                 [leaders |-> Append(acc.leaders, <<leader, sockets[leader], slot>>),
                  seen |-> acc.seen \cup {leader}])
        ELSE FutureLeadersLoop(i + 1, end, slot, curr_start, next_start, schedule, sockets,
               [leaders |-> acc.leaders, seen |-> acc.seen \cup {leader}])

\* The arguments get_future_leaders is called with: get_leaders() and the prewarmer.
GET_LEADERS_END == 2

PREWARM_END == 40

\* get_future_leaders, one step per lock acquisition and per group of reads.
GetFutureLeadersCall(start, end) ==
  /\ reader.pc = "idle"
  /\ reader' = [ReaderIdle EXCEPT !.pc = "acquire_slots", !.start = start, !.end = end,
                                  !.i = start]
  /\ UNCHANGED <<overflow_checks, slotVars, listener, feed, scheduleVars, leader_sockets, refresher, locks,
                 poolVars, session>>

GetFutureLeadersAcquire(name, then) ==
  /\ reader.pc = "acquire_" \o name
  /\ ReadLockFree(locks[name])
  /\ locks' = [locks EXCEPT ![name].readers = @ \cup {"reader"}]
  /\ reader' = [reader EXCEPT !.pc = then]
  /\ UNCHANGED <<overflow_checks, slotVars, listener, feed, scheduleVars, leader_sockets, refresher,
                 poolVars, session>>

GetFutureLeadersReadSlot ==
  /\ reader.pc = "read_slot"
  /\ reader' = [reader EXCEPT !.curr_slot = current_slot,
                              !.pc = IF NoSlotYet(current_slot) THEN "return" ELSE "read_epoch"]
  /\ UNCHANGED <<overflow_checks, slotVars, listener, feed, scheduleVars, leader_sockets, refresher, locks,
                 poolVars, session>>

GetFutureLeadersReadEpoch ==
  /\ reader.pc = "read_epoch"
  /\ reader' = [reader EXCEPT
       !.curr_start = curr_epoch_slot_start,
       !.next_start = next_epoch_slot_start,
       !.pc = IF reader.curr_slot < curr_epoch_slot_start
                 \/ reader.curr_slot >= next_epoch_slot_start
              THEN "return" ELSE "loop"]
  /\ UNCHANGED <<overflow_checks, slotVars, listener, feed, scheduleVars, leader_sockets, refresher, locks,
                 poolVars, session>>

\* One pass of the for loop: the range and overflow checks, the epoch-boundary
\* break, slot_to_index, the schedule lookup, the dedup and the socket lookup.
GetFutureLeadersLoop ==
  /\ reader.pc = "loop"
  /\ LET target == reader.curr_slot + reader.i
         idx    == SlotToIndex(target, curr_epoch_slot_start, next_epoch_slot_start)
         leader == GetLeaderForSlotIndex(curr_schedule, idx)
         socket == leader_sockets[leader]
     IN  reader' =
           IF LoopDone(reader.i, reader.end) THEN [reader EXCEPT !.pc = "return"]
           ELSE IF target >= SlotModulus THEN [reader EXCEPT !.pc = "return"]
           ELSE IF target >= next_epoch_slot_start
             THEN [reader EXCEPT !.pc = "return", !.next_start = next_epoch_slot_start]
           ELSE IF idx < 0
             THEN [reader EXCEPT !.i = @ + 1, !.curr_start = curr_epoch_slot_start,
                                 !.next_start = next_epoch_slot_start]
           ELSE
             LET looked == [reader EXCEPT !.i = @ + 1,
                              !.curr_start = curr_epoch_slot_start,
                              !.next_start = next_epoch_slot_start,
                              !.schedule = curr_schedule, !.saw_schedule = TRUE]
             IN  IF leader = NoLeader THEN looked
                 ELSE IF AlreadySeen(reader.seen, leader) THEN looked
                 ELSE IF socket # NoSocket
                   THEN [looked EXCEPT !.seen = @ \cup {leader},
                           !.sockets_read = @ \cup {leader_sockets},
                           !.targets = @ \cup {target},
                           !.leaders = Append(@, <<leader, socket, reader.curr_slot>>)]
                 ELSE [looked EXCEPT !.seen = @ \cup {leader},
                                     !.sockets_read = @ \cup {leader_sockets}]
  /\ UNCHANGED <<overflow_checks, slotVars, listener, feed, scheduleVars, leader_sockets, refresher, locks,
                 poolVars, session>>

\* The read guards get_future_leaders holds, all dropped when it returns.
ReaderGuardsMutant == {"slots", "sockets"}

ReaderGuards == {"slots", "schedule", "sockets"}

GetFutureLeadersReturn ==
  /\ reader.pc = "return"
  /\ locks' = [n \in DOMAIN locks |->
                IF n \in ReaderGuards THEN [locks[n] EXCEPT !.readers = @ \ {"reader"}]
                ELSE locks[n]]
  /\ reader' = ReaderIdle
  /\ UNCHANGED <<overflow_checks, slotVars, listener, feed, scheduleVars, leader_sockets, refresher,
                 poolVars, session>>

GetFutureLeaders(calls) ==
  \/ \E call \in calls : GetFutureLeadersCall(call[1], call[2])
  \/ GetFutureLeadersAcquire("slots", "acquire_schedule")
  \/ GetFutureLeadersAcquire("schedule", "acquire_sockets")
  \/ GetFutureLeadersAcquire("sockets", "read_slot")
  \/ GetFutureLeadersReadSlot
  \/ GetFutureLeadersReadEpoch
  \/ GetFutureLeadersLoop
  \/ GetFutureLeadersReturn

\* The calls the program makes: get_leaders() and the prewarmer.
ProgramCalls == {<<0, GET_LEADERS_END>>, <<0, PREWARM_END>>}

\* The cluster-node lists get_cluster_nodes returns, as identity -> socket.
NodeSnapshots ==
  { [id \in Identities |-> CASE id = "A" -> "10.0.0.1:8001" [] id = "B" -> "10.0.0.2:8001"
                             [] OTHER -> NoSocket],
    [id \in Identities |-> CASE id = "B" -> "10.0.0.2:8001" [] id = "C" -> "fe80::3:8001"
                             [] OTHER -> NoSocket] }

\* The registry as new() leaves it and after each refresh.
RegistrySnapshots == NodeSnapshots \cup {[id \in Identities |-> NoSocket]}

\* The map update_leader_sockets leaves: get_cluster_nodes().await.context(..)?
\* returns before the map is touched; after a successful call the new map is
\* built aside and assigned whole.
RefreshedSocketsMutant(old, rpc_ok, nodes) ==
  IF rpc_ok THEN nodes ELSE [id \in Identities |-> NoSocket]

RefreshedSockets(old, rpc_ok, nodes) == IF rpc_ok THEN nodes ELSE old

\* update_leader_sockets, called by the refresh loop: the RPC call, then, if it
\* succeeded, the assignment under the sockets write lock; the loop logs the
\* result and goes to sleep.
UpdateLeaderSockets ==
  /\ refresher.pc = "call"
  /\ \E rpc_ok \in BOOLEAN, nodes \in NodeSnapshots :
       /\ rpc_ok => WriteLockFree(locks.sockets)
       /\ leader_sockets' = RefreshedSockets(leader_sockets, rpc_ok, nodes)
       /\ refresher' = [pc |-> "sleep", last |-> IF rpc_ok THEN "ok" ELSE "error"]
  /\ UNCHANGED <<overflow_checks, slotVars, listener, feed, scheduleVars, locks, reader,
                 poolVars, session>>

\* tokio::time::sleep(Duration::from_secs(60)).await, then the next pass of the loop.
RefresherSleeps ==
  /\ refresher.pc = "sleep"
  /\ refresher' = [refresher EXCEPT !.pc = "call"]
  /\ UNCHANGED <<overflow_checks, slotVars, listener, feed, scheduleVars, leader_sockets,
                 locks, reader, poolVars, session>>

\* curr_slot >= schedule_tracker.next_epoch_slot_start()
NeedsRotationMutant(curr_slot, next_start) == curr_slot > next_start

NeedsRotation(curr_slot, next_start) == curr_slot >= next_start

\* handle_slot_event, first block: record under the slots write lock.
HandleSlotEvent(update) ==
  /\ listener.pc = "idle"
  /\ WriteLockFree(locks.slots)
  /\ LET r == RecordResult(recent_events, current_slot, update, overflow_checks)
     IN  /\ recent_events' = r.events
         /\ current_slot' = r.slot
         /\ listener' = [ListenerIdle EXCEPT
              !.pc = CASE r.outcome = "panic" -> "panicked"
                       [] r.outcome = "ignored" -> "idle"
                       [] OTHER -> "check_rotation",
              !.last = IF r.outcome = "ok" THEN "handling" ELSE r.outcome,
              !.curr_slot = r.slot,
              !.pre_curr = curr_epoch_slot_start,
              !.pre_next = next_epoch_slot_start,
              !.pre_curr_map = curr_schedule,
              !.pre_next_map = next_schedule,
              !.kind = update.kind]
  /\ feed' = [feed EXCEPT !.sent = @ + 1]
  /\ UNCHANGED <<overflow_checks, trackerVars, poolVars, session>>

\* handle_slot_event, second block: needs_rotation under the schedule read lock.
CheckRotation ==
  /\ listener.pc = "check_rotation"
  /\ ReadLockFree(locks.schedule)
  /\ listener' = IF NeedsRotation(listener.curr_slot, next_epoch_slot_start)
                   THEN [listener EXCEPT !.pc = "rotate_epoch"]
                 ELSE [listener EXCEPT !.pc = "idle", !.last = "ok"]
  /\ UNCHANGED <<overflow_checks, slotVars, feed, trackerVars, poolVars, session>>

\* rotate_epoch takes the schedule write lock and keeps it until it returns.
RotateEpochAcquire ==
  /\ listener.pc = "rotate_epoch"
  /\ WriteLockFree(locks.schedule)
  /\ locks' = [locks EXCEPT !.schedule.writer = TRUE]
  /\ listener' = [listener EXCEPT !.pc = "maybe_rotate"]
  /\ UNCHANGED <<overflow_checks, slotVars, feed, scheduleVars, leader_sockets, refresher, reader,
                 poolVars, session>>

\* if current_slot < self.next_epoch_slot_start { return Ok(false) }
StillInEpochMutant(slot, next_start) == FALSE

StillInEpochOffByOne(slot, next_start) == slot <= next_start

StillInEpoch(slot, next_start) == slot < next_start

\* self.next_epoch_slot_start += self.slots_in_epoch
NextEpochStartMutant(next_start, slots) == next_start + slots + slots

NextEpochStart(next_start, slots) == next_start + slots

\* self.curr_epoch_slot_start = self.next_epoch_slot_start
ShiftedCurrStartMutant(curr_start, next_start) == curr_start

ShiftedCurrStart(curr_start, next_start) == next_start

\* maybe_rotate: the check, then curr_epoch_slot_start = next_epoch_slot_start.
MaybeRotateShiftCurr ==
  /\ listener.pc = "maybe_rotate"
  /\ IF StillInEpoch(listener.curr_slot, next_epoch_slot_start)
       THEN /\ listener' = [listener EXCEPT !.pc = "release", !.rotated = FALSE]
            /\ UNCHANGED curr_epoch_slot_start
     ELSE /\ curr_epoch_slot_start' =
               ShiftedCurrStart(curr_epoch_slot_start, next_epoch_slot_start)
          /\ listener' = [listener EXCEPT !.pc = "shift_next"]
  /\ UNCHANGED <<overflow_checks, slotVars, feed, next_epoch_slot_start, curr_schedule,
                 next_schedule, slots_in_epoch, published, leader_sockets, refresher, locks, reader,
                 poolVars, session>>

\* next_epoch_slot_start += slots_in_epoch
MaybeRotateShiftNext ==
  /\ listener.pc = "shift_next"
  /\ next_epoch_slot_start' = NextEpochStart(next_epoch_slot_start, slots_in_epoch)
  /\ listener' = [listener EXCEPT !.pc = "take"]
  /\ UNCHANGED <<overflow_checks, slotVars, feed, curr_epoch_slot_start, curr_schedule,
                 next_schedule, slots_in_epoch, published, leader_sockets, refresher, locks, reader,
                 poolVars, session>>

\* curr_schedule = std::mem::take(&mut next_schedule)
MaybeRotateTake ==
  /\ listener.pc = "take"
  /\ curr_schedule' = next_schedule
  /\ next_schedule' = EmptySchedule
  /\ listener' = [listener EXCEPT !.pc = "fetch"]
  /\ UNCHANGED <<overflow_checks, slotVars, feed, curr_epoch_slot_start,
                 next_epoch_slot_start, slots_in_epoch, published, leader_sockets, refresher, locks,
                 reader,
                 poolVars, session>>

\* next_schedule = fetch_schedule(next_epoch_slot_start).await?: the RPC answers
\* with the epoch's schedule or fails (an error, no schedule, an empty one).
MaybeRotateFetch ==
  /\ listener.pc = "fetch"
  /\ \E answer \in {"schedule", "error"} :
       IF answer = "schedule"
         THEN /\ next_schedule' = ClusterSchedule(next_epoch_slot_start)
              /\ listener' = [listener EXCEPT !.pc = "release", !.rotated = TRUE,
                                              !.fetched = "ok"]
       ELSE /\ UNCHANGED next_schedule
            /\ listener' = [listener EXCEPT !.pc = "release", !.fetched = "error"]
  /\ UNCHANGED <<overflow_checks, slotVars, feed, curr_epoch_slot_start,
                 next_epoch_slot_start, curr_schedule, slots_in_epoch, published,
                 leader_sockets, refresher, locks, reader,
                 poolVars, session>>

\* rotate_epoch returns: the write guard is dropped, the result goes to run().
RotateEpochReturn ==
  /\ listener.pc = "release"
  /\ locks' = [locks EXCEPT !.schedule.writer = FALSE]
  /\ published' = published \cup
       {<<curr_epoch_slot_start, next_epoch_slot_start, curr_schedule>>}
  /\ listener' = [listener EXCEPT !.pc = "idle",
                    !.last = IF listener.fetched = "error" THEN "error" ELSE "ok"]
  /\ UNCHANGED <<overflow_checks, slotVars, feed, curr_epoch_slot_start,
                 next_epoch_slot_start, curr_schedule, next_schedule, slots_in_epoch,
                 leader_sockets, refresher, reader,
                 poolVars, session>>

\* run(): slot_notifications.next() yields None (the subscription ended or the
\* WebSocket failed), the while loop ends and run returns; the task that
\* called it logs an error, if any, and ends.
ListenerSubscriptionEnds ==
  /\ listener.pc = "idle"
  /\ listener' = [listener EXCEPT !.pc = "stopped"]
  /\ UNCHANGED <<overflow_checks, slotVars, feed, trackerVars, poolVars, session>>

\* Slots the feed announces beside the schedule tracker: below the first epoch,
\* inside it, at the start of the next one, two epochs ahead.
SchedFeedSlots == {1, EpochLen + 1, EpochLen + EpochLen, 3 * EpochLen + 1}

InitSched ==
  /\ overflow_checks \in BOOLEAN
  /\ recent_events = <<>>
  /\ current_slot = 0
  /\ listener = ListenerIdle
  /\ feed = [mode |-> "any", base |-> 0, sent |-> 0]
  /\ GatewayConstructed

NextSched ==
  \/ /\ feed.sent < MaxSchedEvents
     /\ \E kind \in AcceptedKinds \cup IgnoredKinds, slot \in SchedFeedSlots :
          HandleSlotEvent(SlotUpdate(kind, slot))
  \/ CheckRotation
  \/ RotateEpochAcquire
  \/ MaybeRotateShiftCurr
  \/ MaybeRotateShiftNext
  \/ MaybeRotateTake
  \/ MaybeRotateFetch
  \/ RotateEpochReturn
  \/ GetFutureLeaders(ProgramCalls)
  \/ UpdateLeaderSockets
  \/ RefresherSleeps
  \/ ListenerSubscriptionEnds

SpecSched == InitSched /\ [][NextSched]_vars

\* The tasks that take the locks of LeaderTracker, each running on: a caller
\* of get_leaders(), the listener, the refresh loop.
ReaderRuns ==
  \/ GetFutureLeadersReadSlot
  \/ GetFutureLeadersReadEpoch
  \/ GetFutureLeadersLoop
  \/ GetFutureLeadersReturn

ListenerRuns ==
  \/ MaybeRotateShiftCurr
  \/ MaybeRotateShiftNext
  \/ MaybeRotateTake
  \/ MaybeRotateFetch
  \/ RotateEpochReturn

\* Slots the feed announces beside the lock takers: inside the first epoch and
\* at the start of the next one.
LockFeedSlots == {EpochLen + 1, EpochLen + EpochLen}

NextLocks ==
  \/ /\ feed.sent < MaxSchedEvents
     /\ \E kind \in {"FirstShredReceived", "CreatedBank"}, slot \in LockFeedSlots :
          HandleSlotEvent(SlotUpdate(kind, slot))
  \/ CheckRotation
  \/ RotateEpochAcquire
  \/ ListenerRuns
  \/ GetFutureLeaders({<<0, GET_LEADERS_END>>})
  \/ UpdateLeaderSockets
  \/ RefresherSleeps

\* The runtime runs every task that can run, every RPC call returns, and the
\* tokio RwLock serves its waiters in order, so that a waiter for a lock that
\* is free again and again gets it.
SpecLocks ==
  /\ InitSched
  /\ [][NextLocks]_vars
  /\ WF_vars(ReaderRuns)
  /\ WF_vars(ListenerRuns)
  /\ SF_vars(GetFutureLeadersAcquire("slots", "acquire_schedule"))
  /\ SF_vars(GetFutureLeadersAcquire("schedule", "acquire_sockets"))
  /\ SF_vars(GetFutureLeadersAcquire("sockets", "read_slot"))
  /\ SF_vars(CheckRotation)
  /\ SF_vars(RotateEpochAcquire)

\* ---------------------------------------------------- TpuConnectionManager

IsOpen(entry) == entry.present /\ entry.conn # 0

\* conn.close_reason().is_none()
IsLiveMutant(c) == TRUE

IsLive(c) == c \notin quic.closed

\* get_connection: Ok(Some(conn)) for an open entry without close reason,
\* Err("No connection is open") for the sentinel, Ok(None) otherwise.
GetConnection(validator) ==
  LET entry == connections[validator]
  IN  IF entry = Pending THEN [kind |-> "err", conn |-> 0]
      ELSE IF IsOpen(entry) /\ IsLive(entry.conn) THEN [kind |-> "some", conn |-> entry.conn]
      ELSE [kind |-> "none", conn |-> 0]

\* validator.parse::<SocketAddr>(): "ip:port" with a bare IPv6 address does not parse.
ParsesAsSocketAddr(validator) == validator # "fe80::3:8001"

\* The second look at the table, under the write lock: an entry whose conn is
\* None means another caller is connecting.
ReserveRefusedMutant(entry) == FALSE

ReserveRefused(entry) == entry = Pending

InFlight == {t \in Dialers : dialers[t].pc # "idle"}

\* A task spawned by the prewarmer enters get_or_create_connection(validator).
GetOrCreateConnectionCall(t, validator) ==
  /\ dialers[t].pc = "idle"
  /\ quic.made + Cardinality(InFlight) < MaxConnections
  /\ dialers' = [dialers EXCEPT ![t] = [DialerIdle EXCEPT !.pc = "lookup",
                                                          !.validator = validator]]
  /\ UNCHANGED <<overflow_checks, slotVars, listener, feed, trackerVars, connections, quic,
                 session>>

\* match self.get_connection(validator).await
GetOrCreateConnectionLookup(t) ==
  /\ dialers[t].pc = "lookup"
  /\ LET r == GetConnection(dialers[t].validator)
     IN  dialers' = [dialers EXCEPT ![t] =
           CASE r.kind = "some" -> [@ EXCEPT !.pc = "done", !.result = "ok", !.conn = r.conn]
             [] r.kind = "err"  -> [@ EXCEPT !.pc = "done", !.result = "Already connecting"]
             [] OTHER           -> [@ EXCEPT !.pc = "reserve"]]
  /\ UNCHANGED <<overflow_checks, slotVars, listener, feed, trackerVars, connections, quic,
                 session>>

\* The write-locked block: refuse if the sentinel is there, else insert it.
GetOrCreateConnectionReserve(t) ==
  /\ dialers[t].pc = "reserve"
  /\ IF ReserveRefused(connections[dialers[t].validator])
       THEN /\ dialers' = [dialers EXCEPT ![t].pc = "done",
                                          ![t].result = "Already connecting"]
            /\ UNCHANGED connections
     ELSE /\ connections' = [connections EXCEPT ![dialers[t].validator] = Pending]
          /\ dialers' = [dialers EXCEPT ![t].pc = "parse", ![t].reserved = TRUE]
  /\ UNCHANGED <<overflow_checks, slotVars, listener, feed, trackerVars, quic, session>>

\* validator.parse().context("Invalid validator address")?
GetOrCreateConnectionParse(t) ==
  /\ dialers[t].pc = "parse"
  /\ dialers' = [dialers EXCEPT ![t] =
       IF ParsesAsSocketAddr(dialers[t].validator)
         THEN [@ EXCEPT !.pc = "connect"]
       ELSE [@ EXCEPT !.pc = "done", !.result = "Invalid validator address"]]
  /\ UNCHANGED <<overflow_checks, slotVars, listener, feed, trackerVars, connections, quic,
                 session>>

\* self.endpoint.connect(addr, "solana")?.into_0rtt(): the endpoint refuses, or
\* the connection is usable at once (0-RTT), or the handshake has to be awaited.
GetOrCreateConnectionConnect(t) ==
  /\ dialers[t].pc = "connect"
  /\ \E outcome \in {"connect_error", "zero_rtt", "handshake"} :
       dialers' = [dialers EXCEPT ![t] =
         IF outcome = "connect_error"
           THEN [@ EXCEPT !.pc = "done", !.result = "connect error"]
         ELSE [@ EXCEPT !.pc = outcome]]
  /\ UNCHANGED <<overflow_checks, slotVars, listener, feed, trackerVars, connections, quic,
                 session>>

\* Ok((conn, rtt_accepted)): rtt_accepted.await ends when the handshake ends; the
\* connection is kept whether the handshake succeeded or closed it.
GetOrCreateConnectionZeroRtt(t) ==
  /\ dialers[t].pc = "zero_rtt"
  /\ \E handshake_ok \in BOOLEAN :
       quic' = [quic EXCEPT !.made = @ + 1,
                            !.closed = IF handshake_ok THEN @ ELSE @ \cup {quic.made + 1}]
  /\ dialers' = [dialers EXCEPT ![t].pc = "publish", ![t].conn = quic.made + 1]
  /\ UNCHANGED <<overflow_checks, slotVars, listener, feed, trackerVars, connections, session>>

\* Err(connecting): connecting.await gives the connection or the handshake error.
GetOrCreateConnectionHandshake(t) ==
  /\ dialers[t].pc = "handshake"
  /\ \E handshake_ok \in BOOLEAN :
       IF handshake_ok
         THEN /\ quic' = [quic EXCEPT !.made = @ + 1]
              /\ dialers' = [dialers EXCEPT ![t].pc = "publish", ![t].conn = quic.made + 1]
       ELSE /\ UNCHANGED quic
            /\ dialers' = [dialers EXCEPT ![t].pc = "remove"]
  /\ UNCHANGED <<overflow_checks, slotVars, listener, feed, trackerVars, connections, session>>

\* self.connections.write().await.remove(validator); return Err(e.into())
GetOrCreateConnectionRemove(t) ==
  /\ dialers[t].pc = "remove"
  /\ connections' = [connections EXCEPT ![dialers[t].validator] = Absent]
  /\ dialers' = [dialers EXCEPT ![t].pc = "done", ![t].result = "handshake error"]
  /\ UNCHANGED <<overflow_checks, slotVars, listener, feed, trackerVars, quic, session>>

\* self.connections.write().await.insert(.., Connection { conn: Some(..) }); Ok(connection)
GetOrCreateConnectionPublish(t) ==
  /\ dialers[t].pc = "publish"
  /\ connections' = [connections EXCEPT ![dialers[t].validator] =
                                        [present |-> TRUE, conn |-> dialers[t].conn]]
  /\ dialers' = [dialers EXCEPT ![t].pc = "done", ![t].result = "ok"]
  /\ UNCHANGED <<overflow_checks, slotVars, listener, feed, trackerVars, quic, session>>

\* The spawned task logs the result and ends.
GetOrCreateConnectionEnd(t) ==
  /\ dialers[t].pc = "done"
  /\ dialers' = [dialers EXCEPT ![t] = DialerIdle]
  /\ UNCHANGED <<overflow_checks, slotVars, listener, feed, trackerVars, connections, quic,
                 session>>

GetOrCreateConnection(t) ==
  \/ \E validator \in PoolSockets : GetOrCreateConnectionCall(t, validator)
  \/ GetOrCreateConnectionLookup(t)
  \/ GetOrCreateConnectionReserve(t)
  \/ GetOrCreateConnectionParse(t)
  \/ GetOrCreateConnectionConnect(t)
  \/ GetOrCreateConnectionZeroRtt(t)
  \/ GetOrCreateConnectionHandshake(t)
  \/ GetOrCreateConnectionRemove(t)
  \/ GetOrCreateConnectionPublish(t)
  \/ GetOrCreateConnectionEnd(t)

\* A connection gets a close reason: the peer closes it or the idle timeout fires.
ConnectionCloses ==
  /\ \E c \in (1 .. quic.made) \ quic.closed :
       quic' = [quic EXCEPT !.closed = @ \cup {c}]
  /\ UNCHANGED <<overflow_checks, slotVars, listener, feed, trackerVars, connections, dialers,
                 session>>

\* The connections close_all calls close on: those of the entries whose conn
\* is Some.
TableConnectionsMutant(table) == {}

TableConnections(table) == {table[s].conn : s \in {v \in PoolSockets : IsOpen(table[v])}}

\* close_all: under the write lock, conn.close(0, b"shutdown") on every entry
\* that holds a connection (no effect on one that already has a close reason),
\* then connections.clear().
CloseAll ==
  /\ quic.close_alls < MaxCloseAll
  /\ quic' = [quic EXCEPT
       !.closed = @ \cup TableConnections(connections),
       !.shutdown = @ \cup (TableConnections(connections) \ quic.closed),
       !.close_alls = @ + 1]
  /\ connections' = [s \in PoolSockets |-> Absent]
  /\ UNCHANGED <<overflow_checks, slotVars, listener, feed, trackerVars, dialers, session>>

\* self.connections.read().await.len()
ConnectionCount == Cardinality({s \in PoolSockets : connections[s].present})

\* ------------------------------------------- handle_session, send_transaction

\* get_future_leaders(start, end) in one piece, for a caller that is granted the
\* three read locks at once.
GetFutureLeadersResult(start, end) ==
  IF NoSlotYet(current_slot) THEN <<>>
  ELSE IF current_slot < curr_epoch_slot_start \/ current_slot >= next_epoch_slot_start
    THEN <<>>
  ELSE FutureLeadersLoop(start, end, current_slot, curr_epoch_slot_start,
         next_epoch_slot_start, curr_schedule, leader_sockets,
         [leaders |-> <<>>, seen |-> {}])

\* What a client sends on a bidirectional stream: a transaction, bytes that are
\* no transaction, a blob over the size cap.
Payloads == {"transaction", "garbage", "oversized"}

FitsMaxTransactionSize(payload) == payload # "oversized"

DeserializesAsTransactionMutant(payload) == TRUE

DeserializesAsTransaction(payload) == payload = "transaction"

\* The bytes send_transaction hands to write_all: tx_data, the buffer
\* read_to_end returned, not the deserialized transaction.
ForwardedBytesMutant(tx_data) == "reserialized"

ForwardedBytes(tx_data) == tx_data

\* The replies handle_session writes: b"OK" or format!("ERROR: {}", e).
ErrorReplies ==
  {"ERROR: Failed sending TX", "ERROR: Failed to open uni stream",
   "ERROR: Failed to write transaction data", "ERROR: Failed to finish stream"}

ErrorReply(e) ==
  CASE e = "Failed sending TX" -> "ERROR: Failed sending TX"
    [] e = "Failed to open uni stream" -> "ERROR: Failed to open uni stream"
    [] e = "Failed to write transaction data" -> "ERROR: Failed to write transaction data"
    [] OTHER -> "ERROR: Failed to finish stream"

\* session.accept_bi().await: a new stream with its payload, or an error (the
\* client closed the session) that breaks the loop.
SessionAcceptBi ==
  /\ session.pc = "accept_bi"
  /\ \E stream \in Payloads \cup {"accept_error"} :
       session' = IF stream = "accept_error"
                    THEN [SessionIdle EXCEPT !.pc = "ended"]
                  ELSE [SessionIdle EXCEPT !.pc = "read_to_end", !.payload = stream]
  /\ UNCHANGED <<overflow_checks, slotVars, listener, feed, trackerVars, poolVars>>

\* recv.read_to_end(MAX_TRANSACTION_SIZE).await.context(..)?
SessionReadToEnd ==
  /\ session.pc = "read_to_end"
  /\ session' = IF FitsMaxTransactionSize(session.payload)
                  THEN [session EXCEPT !.pc = "deserialize"]
                ELSE [session EXCEPT !.pc = "failed", !.result = "Failed to read transaction"]
  /\ UNCHANGED <<overflow_checks, slotVars, listener, feed, trackerVars, poolVars>>

\* bincode::deserialize(&tx_data).context(..)?
SessionDeserialize ==
  /\ session.pc = "deserialize"
  /\ session' = IF DeserializesAsTransaction(session.payload)
                  THEN [session EXCEPT !.pc = "get_leaders"]
                ELSE [session EXCEPT !.pc = "failed",
                                     !.result = "Failed to deserialize transaction"]
  /\ UNCHANGED <<overflow_checks, slotVars, listener, feed, trackerVars, poolVars>>

\* send_transaction: let leaders = self.leader_tracker.get_leaders().await
SendTransactionGetLeaders ==
  /\ session.pc = "get_leaders"
  /\ ReadLockFree(locks.slots) /\ ReadLockFree(locks.schedule) /\ ReadLockFree(locks.sockets)
  /\ session' = [session EXCEPT !.pc = "next_leader", !.i = 1,
                                !.leaders = GetFutureLeadersResult(0, GET_LEADERS_END)]
  /\ UNCHANGED <<overflow_checks, slotVars, listener, feed, trackerVars, poolVars>>

\* The head of the for loop: get_connection for the next leader, or the end of
\* the loop and the result of send_transaction.
SendTransactionNextLeader ==
  /\ session.pc = "next_leader"
  /\ session' =
       IF session.i > Len(session.leaders)
         THEN [session EXCEPT !.pc = "reply",
                 !.result = IF session.tx_sent THEN "ok" ELSE "Failed sending TX"]
       ELSE LET r == GetConnection(session.leaders[session.i][2])
            IN  IF r.kind = "some"
                  THEN [session EXCEPT !.pc = "open_uni", !.conn = r.conn]
                ELSE [session EXCEPT !.i = @ + 1]
  /\ UNCHANGED <<overflow_checks, slotVars, listener, feed, trackerVars, poolVars>>

\* conn.open_uni().await.context("Failed to open uni stream")?
SendTransactionOpenUni ==
  /\ session.pc = "open_uni"
  /\ session' = IF IsLive(session.conn)
                  THEN [session EXCEPT !.pc = "write_all"]
                ELSE [session EXCEPT !.pc = "reply", !.result = "Failed to open uni stream"]
  /\ UNCHANGED <<overflow_checks, slotVars, listener, feed, trackerVars, poolVars>>

\* send_stream.write_all(&tx_data).await.context(..)?: fails on a closed
\* connection, and may fail on a live one (the peer stops the stream).
SendTransactionWriteAll ==
  /\ session.pc = "write_all"
  /\ \E written \in {ok \in BOOLEAN : ok => IsLive(session.conn)} :
       session' = IF written
                    THEN [session EXCEPT !.pc = "finish",
                            !.streams = Append(@, <<session.leaders[session.i][1],
                                                    ForwardedBytes(session.payload)>>)]
                  ELSE [session EXCEPT !.pc = "reply",
                                       !.result = "Failed to write transaction data"]
  /\ UNCHANGED <<overflow_checks, slotVars, listener, feed, trackerVars, poolVars>>

\* send_stream.finish().context(..)?; tx_sent = true
SendTransactionFinish ==
  /\ session.pc = "finish"
  /\ \E finished \in BOOLEAN :
       session' = IF finished
                    THEN [session EXCEPT !.pc = "next_leader", !.tx_sent = TRUE,
                            !.delivered = @ \cup {session.leaders[session.i][1]},
                            !.i = @ + 1]
                  ELSE [session EXCEPT !.pc = "reply", !.result = "Failed to finish stream"]
  /\ UNCHANGED <<overflow_checks, slotVars, listener, feed, trackerVars, poolVars>>

\* match send_transaction(..): send.write_all(b"OK") or the ERROR line, with ?
SessionReply ==
  /\ session.pc = "reply"
  /\ \E written \in BOOLEAN :
       session' = IF written
                    THEN [session EXCEPT !.pc = "finish_reply",
                            !.reply = IF session.result = "ok" THEN "OK"
                                      ELSE ErrorReply(session.result)]
                  ELSE [session EXCEPT !.pc = "failed"]
  /\ UNCHANGED <<overflow_checks, slotVars, listener, feed, trackerVars, poolVars>>

\* send.finish()?, then the loop goes back to accept_bi.
SessionFinishReply ==
  /\ session.pc = "finish_reply"
  /\ \E finished \in BOOLEAN :
       session' = IF finished THEN SessionIdle ELSE [session EXCEPT !.pc = "failed"]
  /\ UNCHANGED <<overflow_checks, slotVars, listener, feed, trackerVars, poolVars>>

HandleSession ==
  \/ SessionAcceptBi
  \/ SessionReadToEnd
  \/ SessionDeserialize
  \/ SendTransactionGetLeaders
  \/ SendTransactionNextLeader
  \/ SendTransactionOpenUni
  \/ SendTransactionWriteAll
  \/ SendTransactionFinish
  \/ SessionReply
  \/ SessionFinishReply

\* The gateway serving: a slot inside the first epoch has been announced and the
\* socket registry is as constructed or has been refreshed.
InitPool ==
  /\ overflow_checks \in BOOLEAN
  /\ recent_events = <<SlotEvent(TRUE, EpochLen + 1)>>
  /\ current_slot = EpochLen + 1
  /\ listener = [ListenerIdle EXCEPT !.last = "ok", !.curr_slot = EpochLen + 1,
                                     !.pre_curr = EpochLen, !.pre_next = EpochLen + EpochLen]
  /\ feed = [mode |-> "any", base |-> 0, sent |-> 1]
  /\ ScheduleConstructed
  /\ leader_sockets \in RegistrySnapshots
  /\ refresher = RefresherIdle
  /\ locks = [slots |-> Unlocked, schedule |-> Unlocked, sockets |-> Unlocked]
  /\ reader = ReaderIdle
  /\ PoolConstructed

\* The connection pool under concurrent prewarm tasks.
NextPool ==
  \/ \E t \in Dialers : GetOrCreateConnection(t)
  \/ ConnectionCloses

SpecPool == InitPool /\ [][NextPool]_vars

\* The sockets of the leaders the prewarmer gets from get_future_leaders.
RegistrySockets == {leader_sockets[id] : id \in Identities} \ {NoSocket}

\* A task spawned by the prewarmer, once inside get_or_create_connection, runs.
DialerRuns(t) ==
  \/ GetOrCreateConnectionLookup(t)
  \/ GetOrCreateConnectionReserve(t)
  \/ GetOrCreateConnectionParse(t)
  \/ GetOrCreateConnectionConnect(t)
  \/ GetOrCreateConnectionZeroRtt(t)
  \/ GetOrCreateConnectionHandshake(t)
  \/ GetOrCreateConnectionRemove(t)
  \/ GetOrCreateConnectionPublish(t)
  \/ GetOrCreateConnectionEnd(t)

\* The prewarm loop: every 2 s one task per leader socket; the runtime runs
\* every spawned task, and every started dial terminates.
NextPrewarm ==
  \/ \E t \in Dialers, validator \in RegistrySockets : GetOrCreateConnectionCall(t, validator)
  \/ \E t \in Dialers : DialerRuns(t)
  \/ ConnectionCloses

SpecPrewarm ==
  InitPool /\ [][NextPrewarm]_vars /\ \A t \in Dialers : WF_vars(DialerRuns(t))

\* The pool with a caller of close_all beside the prewarm tasks.
NextShutdown ==
  \/ \E t \in Dialers : GetOrCreateConnection(t)
  \/ ConnectionCloses
  \/ CloseAll

SpecShutdown == InitPool /\ [][NextShutdown]_vars

\* A client session beside one prewarm task at a time.
NextFanout ==
  \/ GetOrCreateConnection(1)
  \/ ConnectionCloses
  \/ HandleSession

SpecFanout == InitPool /\ [][NextFanout]_vars

\* ------------------------------------------------ the schedule tracker alone

\* The slots rotate_epoch is called with: before, at and after the boundaries
\* of the current and the next epoch.
RotateSlots ==
  {0, curr_epoch_slot_start, next_epoch_slot_start - 1, next_epoch_slot_start,
   next_epoch_slot_start + 1, next_epoch_slot_start + slots_in_epoch}

\* rotate_epoch(leader_tracker, curr_slot), called with any slot.
RotateEpochCall(curr_slot) ==
  /\ listener.pc = "idle"
  /\ feed.sent < MaxRotateCalls
  /\ listener' = [ListenerIdle EXCEPT
       !.pc = "rotate_epoch", !.last = "handling", !.curr_slot = curr_slot,
       !.pre_curr = curr_epoch_slot_start, !.pre_next = next_epoch_slot_start,
       !.pre_curr_map = curr_schedule, !.pre_next_map = next_schedule]
  /\ feed' = [feed EXCEPT !.sent = @ + 1]
  /\ UNCHANGED <<overflow_checks, slotVars, trackerVars, poolVars, session>>

\* The slots slot_to_index is asked about: the ends of the range, both sides of
\* both boundaries.
QuerySlots ==
  {s \in {0, curr_epoch_slot_start - 1, curr_epoch_slot_start, curr_epoch_slot_start + 1,
          next_epoch_slot_start - 1, next_epoch_slot_start, next_epoch_slot_start + 1,
          U64_MAX} : s >= 0 /\ s <= U64_MAX}

\* schedule_tracker.slot_to_index(slot) between two rotations.
SlotToIndexCall(slot) ==
  /\ listener.pc = "idle"
  /\ listener' = [listener EXCEPT
       !.query = slot,
       !.index = SlotToIndex(slot, curr_epoch_slot_start, next_epoch_slot_start)]
  /\ UNCHANGED <<overflow_checks, slotVars, feed, trackerVars, poolVars, session>>

InitSchedule ==
  /\ overflow_checks \in BOOLEAN
  /\ recent_events = <<>>
  /\ current_slot = 0
  /\ listener = ListenerIdle
  /\ feed = [mode |-> "any", base |-> 0, sent |-> 0]
  /\ \E epoch_start \in {0, EpochLen} : ScheduleConstructedAt(epoch_start)
  /\ leader_sockets = [id \in Identities |-> NoSocket]
  /\ refresher = RefresherIdle
  /\ locks = [slots |-> Unlocked, schedule |-> Unlocked, sockets |-> Unlocked]
  /\ reader = ReaderIdle
  /\ PoolConstructed

NextSchedule ==
  \/ \E slot \in RotateSlots : RotateEpochCall(slot)
  \/ RotateEpochAcquire
  \/ MaybeRotateShiftCurr
  \/ MaybeRotateShiftNext
  \/ MaybeRotateTake
  \/ MaybeRotateFetch
  \/ RotateEpochReturn
  \/ \E slot \in QuerySlots : SlotToIndexCall(slot)

SpecSchedule == InitSchedule /\ [][NextSchedule]_vars

\* -------------------------------------- maybe_rotate repeated with one slot

\* The slot a lagging gateway keeps calling rotate_epoch with: up to four
\* epochs past the one it was constructed in.
CatchUpSlots == 0 .. (4 * EpochLen + 1)

InitCatchUp ==
  /\ overflow_checks \in BOOLEAN
  /\ recent_events = <<>>
  /\ current_slot = 0
  /\ listener = ListenerIdle
  /\ \E slot \in CatchUpSlots : feed = [mode |-> "repeat", base |-> slot, sent |-> 0]
  /\ \E epoch_start \in {0, EpochLen} : ScheduleConstructedAt(epoch_start)
  /\ leader_sockets = [id \in Identities |-> NoSocket]
  /\ refresher = RefresherIdle
  /\ locks = [slots |-> Unlocked, schedule |-> Unlocked, sockets |-> Unlocked]
  /\ reader = ReaderIdle
  /\ PoolConstructed

NextCatchUp ==
  \/ RotateEpochCall(feed.base)
  \/ RotateEpochAcquire
  \/ MaybeRotateShiftCurr
  \/ MaybeRotateShiftNext
  \/ MaybeRotateTake
  \/ MaybeRotateFetch
  \/ RotateEpochReturn

SpecCatchUp == InitCatchUp /\ [][NextCatchUp]_vars

\* ------------------------------------------------- get_future_leaders alone

\* The epochs the gateway may be constructed in: the genesis epoch, a later
\* one, and the last whole epoch but one of the 64-bit range.
LeaderEpochStarts == {0, EpochLen, SlotModulus - 2 * EpochLen}

\* Rings of accepted events: none yet, one event at and around the boundaries
\* of those epochs, and a pair whose estimate lies in the top epoch.
LeaderRings ==
  {<<>>}
  \cup {<<SlotEvent(TRUE, s)>> :
          s \in {0, 1, EpochLen - 1, EpochLen, EpochLen + 1,
                 EpochLen + EpochLen - 1, EpochLen + EpochLen}}
  \cup {<<SlotEvent(TRUE, SlotModulus - 2 * EpochLen - MAX_SLOT_SKIP_DISTANCE),
          SlotEvent(TRUE, SlotModulus - 2 * EpochLen + 1)>>}

\* (start, end) of the calls: the program's, empty and one-slot ranges, and
\* offsets that start after the current slot or beyond the end of the range.
LeaderCalls ==
  {0, 1, EpochLen + EpochLen} \X {0, 1, GET_LEADERS_END, PREWARM_END}

InitLeaders ==
  /\ overflow_checks \in BOOLEAN
  /\ recent_events \in LeaderRings
  /\ current_slot = IF recent_events = <<>> THEN 0
                    ELSE EstimateCurrentSlot(recent_events, overflow_checks).slot
  /\ listener = ListenerIdle
  /\ feed = [mode |-> "any", base |-> 0, sent |-> Len(recent_events)]
  /\ \E epoch_start \in LeaderEpochStarts : ScheduleConstructedAt(epoch_start)
  /\ leader_sockets \in RegistrySnapshots
  /\ refresher = RefresherIdle
  /\ locks = [slots |-> Unlocked, schedule |-> Unlocked, sockets |-> Unlocked]
  /\ reader = ReaderIdle
  /\ PoolConstructed

NextLeaders == GetFutureLeaders(LeaderCalls)

SpecLeaders == InitLeaders /\ [][NextLeaders]_vars

\* ------------------------------------------------- the slot tracker alone

\* Slots the adversarial feed announces: small ones, far-future ones, the largest.
FeedSlots == {0, 1, 2, 50, 51, 100, U64_MAX}

InitSlots ==
  /\ overflow_checks \in BOOLEAN
  /\ recent_events = <<>>
  /\ current_slot = 0
  /\ listener = ListenerIdle
  /\ feed = [mode |-> "any", base |-> 0, sent |-> 0]
  /\ GatewayConstructed

\* One record call on the tracker (the listener task aborts if it panics).
Record(update) ==
  /\ listener.pc = "idle"
  /\ LET r == RecordResult(recent_events, current_slot, update, overflow_checks)
     IN  /\ recent_events' = r.events
         /\ current_slot' = r.slot
         /\ listener' = [listener EXCEPT
              !.pc = IF r.outcome = "panic" THEN "panicked" ELSE "idle",
              !.last = r.outcome,
              !.kind = update.kind]
  /\ feed' = [feed EXCEPT !.sent = @ + 1]
  /\ UNCHANGED <<overflow_checks, trackerVars, poolVars, session>>

NextSlots ==
  /\ feed.sent < MaxEvents
  /\ \E kind \in AcceptedKinds \cup IgnoredKinds, slot \in FeedSlots :
       Record(SlotUpdate(kind, slot))

SpecSlots == InitSlots /\ [][NextSlots]_vars

\* ------------------------------------------- a well-formed stream of events

\* First slots of the well-formed streams: from genesis, mid-range, near the top.
StreamBases == {0, 1, 200}

\* The k-th notification of the contiguous stream Start(s), End(s), Start(s+1), ...
StreamEvent(base, k) ==
  SlotUpdate(IF k % 2 = 0 THEN "FirstShredReceived" ELSE "Completed", base + (k \div 2))

InitStream ==
  /\ overflow_checks \in BOOLEAN
  /\ recent_events = <<>>
  /\ current_slot = 0
  /\ listener = ListenerIdle
  /\ \E b \in StreamBases : feed = [mode |-> "stream", base |-> b, sent |-> 0]
  /\ GatewayConstructed

NextStream ==
  /\ feed.sent < MaxStream
  /\ feed.base + (feed.sent \div 2) <= U64_MAX
  /\ Record(StreamEvent(feed.base, feed.sent))

SpecStream == InitStream /\ [][NextStream]_vars

\* ----------------------------------------------------- claims: SlotsTracker

\* The sorted ring and the indices the estimator works with.
MaxIndex == Len(recent_events) - 1

MedianIndex == MaxIndex \div 2

MedianSlot == SortEvents(recent_events)[MedianIndex + 1].slot

\* The event the estimator selects on the current ring (when it does not abort).
SelectedEvent ==
  SortEvents(recent_events)[EstimateCurrentSlot(recent_events, overflow_checks).idx + 1]

EstimatorRan == recent_events # <<>> /\ listener.pc = "idle"

\* C5: on a well-formed stream (Start(s), End(s), Start(s+1), ...), of any
\* length, current_slot never decreases from one accepted record to the next.
C5_MonotonicOnStream == [][current_slot' >= current_slot]_vars

\* C5 witness: the stream has run past the ring's capacity and the estimate
\* has followed it.
C5_Witness ==
  /\ feed.mode = "stream"
  /\ feed.sent > RECENT_LEADER_SLOTS_CAPACITY + 2
  /\ Len(recent_events) = RECENT_LEADER_SLOTS_CAPACITY
  /\ listener.last = "ok"
  /\ current_slot = feed.base + (feed.sent \div 2)

\* C6 (as stated): the event the estimator selects has slot <= median_slot + 48.
C6_SelectedWithinSkipOfMedian ==
  EstimatorRan =>
    /\ SelectedEvent.slot <= MedianSlot + MAX_SLOT_SKIP_DISTANCE
    /\ current_slot = SlotOfEvent(SelectedEvent)

\* C6 (amended): the event the estimator selects has
\* slot <= median_slot + (max_idx - median_idx) + 48, and it is the event that
\* determines current_slot; an event beyond that cap never does.
C6_SelectedWithinCap ==
  EstimatorRan =>
    /\ SelectedEvent.slot <= MedianSlot + (MaxIndex - MedianIndex) + MAX_SLOT_SKIP_DISTANCE
    /\ current_slot = SlotOfEvent(SelectedEvent)

\* C6 witness: the ring holds a far-future outlier and the estimate stayed below it.
C6_Witness ==
  /\ EstimatorRan
  /\ listener.last = "ok"
  /\ \E i \in 1..Len(recent_events) :
       /\ recent_events[i].slot > MedianSlot + (MaxIndex - MedianIndex) + MAX_SLOT_SKIP_DISTANCE
       /\ current_slot < recent_events[i].slot

\* C7: record never fails for an accepted event, whatever 64-bit slots the ring
\* holds: the estimator always yields a value and the listener task goes on.
C7_RecordNeverAborts == listener.pc # "panicked"

\* -------------------------------------------------- claims: ScheduleTracker

\* C8: in every state the tracker is left in (no rotation in progress), a failed
\* fetch included, neither curr_map nor next_map is empty.
C8_SchedulesNeverEmpty ==
  ~locks.schedule.writer =>
    /\ ~IsEmptySchedule(curr_schedule)
    /\ ~IsEmptySchedule(next_schedule)

HandledWithoutError == listener.pc = "idle" /\ listener.last = "ok"

SlotInsideEpoch ==
  /\ curr_epoch_slot_start <= current_slot
  /\ current_slot < next_epoch_slot_start

\* C9 (as stated): after every slot event handled without error,
\* curr_start <= current_slot < next_start, for any slot the estimator produces.
C9_SlotInsideEpochAfterEvent == HandledWithoutError => SlotInsideEpoch

\* C9 (amended): after every slot event handled without error,
\* curr_start <= current_slot < next_start holds provided the new current_slot
\* is at least the curr_start, and less than next_start + slots_in_epoch, of
\* the schedule as it was before the event (at most one epoch is crossed).
C9_SlotInsideEpochWithinOneRotation ==
  ( /\ HandledWithoutError
    /\ listener.pre_curr <= current_slot
    /\ current_slot < listener.pre_next + slots_in_epoch )
  => SlotInsideEpoch

\* C9 witness: an event crossed the epoch boundary and the rotation it caused
\* left the slot inside the new epoch.
C9_Witness ==
  /\ HandledWithoutError
  /\ listener.rotated
  /\ current_slot >= listener.pre_next
  /\ SlotInsideEpoch

\* C10: a get_future_leaders call reads the (curr_start, next_start, curr_map)
\* of one published state of the tracker, the old one or the new one, even when
\* the rotation's fetch fails: never boundaries of one with the map of another.
C10_RotationAtomicForReaders ==
  reader.saw_schedule =>
    <<reader.curr_start, reader.next_start, reader.schedule>> \in published

\* C10 witness: a reader went through the schedule of the epoch a rotation
\* installed.
C10_Witness ==
  /\ reader.saw_schedule
  /\ reader.curr_start = EpochLen + EpochLen
  /\ Cardinality(published) >= 2

\* ---------------------------------------------- claims: TpuConnectionManager

\* The part of get_or_create_connection between inserting the sentinel and
\* taking it out again (publish or remove).
DialSection == {"parse", "connect", "zero_rtt", "handshake", "remove", "publish"}

DialingOn(s) == {t \in Dialers : dialers[t].validator = s /\ dialers[t].pc \in DialSection}

\* C1: once the reply to a payload that reached the fanout is written, it is
\* OK exactly when the write to at least one leader succeeded, and an ERROR
\* line otherwise, whatever happened with the other leaders.
C1_OkIffSomeLeaderAccepted ==
  session.pc = "finish_reply" =>
    /\ session.delivered # {} => session.reply = "OK"
    /\ session.delivered = {} => session.reply \in ErrorReplies

\* C2: for every socket at most one caller of get_or_create_connection is
\* dialing at any time, every dialing caller has inserted the sentinel first, and
\* a caller answered "Already connecting" has not dialed.
C2_SingleFlightDial ==
  /\ \A s \in PoolSockets : Cardinality(DialingOn(s)) <= 1
  /\ \A t \in Dialers :
       /\ dialers[t].pc \in DialSection => dialers[t].reserved
       /\ dialers[t].result = "Already connecting" => ~dialers[t].reserved

\* C2 witness: one caller is awaiting the handshake on a socket while another
\* caller on the same socket was refused at the write-locked check, having seen
\* no entry at its first look.
C2_Witness ==
  \E t, u \in Dialers :
    /\ t # u
    /\ dialers[t].validator = dialers[u].validator
    /\ dialers[t].pc = "handshake"
    /\ dialers[u].pc = "done" /\ dialers[u].result = "Already connecting"
    /\ connections[dialers[t].validator] = Pending

\* C3: an open entry whose connection has no close reason is never replaced, by
\* the sentinel or by another connection, while the connection stays unclosed.
C3_LiveEntryNeverReplaced ==
  [][\A s \in PoolSockets :
       (/\ IsOpen(connections[s])
        /\ connections[s].conn \notin quic.closed
        /\ connections[s].conn \notin quic'.closed)
       => connections'[s] = connections[s]]_vars

\* C4: when a call that inserted the sentinel returns an error, the table holds
\* no entry for its socket at the return.
C4_FailedDialLeavesNoEntry ==
  [][\A t \in Dialers :
       (/\ dialers[t].reserved
        /\ dialers[t].pc # "done"
        /\ dialers'[t].pc = "done"
        /\ dialers'[t].result # "ok")
       => connections'[dialers[t].validator] = Absent]_vars

\* ---------------------------------------------------- claims: LeaderTracker

LeaderIdentities == {reader.leaders[k][1] : k \in 1 .. Len(reader.leaders)}

\* C11: the list a get_future_leaders call builds holds no identity twice, and
\* the socket of each entry is what the registry read by the call maps the
\* identity to.
C11_NoDuplicateLeaders ==
  /\ Cardinality(LeaderIdentities) = Len(reader.leaders)
  /\ \A m \in reader.sockets_read : \A k \in 1 .. Len(reader.leaders) :
       m[reader.leaders[k][1]] = reader.leaders[k][2]

\* C11 witness: a call returns two leaders after walking over a slot whose
\* leader it had already emitted.
C11_Witness ==
  /\ reader.pc = "return"
  /\ Len(reader.leaders) = 2
  /\ reader.i - reader.start > Cardinality(reader.seen)

\* C12: get_future_leaders returns the empty list whenever current_slot is 0
\* or outside [curr_start, next_start), for every start and end.
C12_EmptyWithoutSlotInEpoch ==
  ( /\ reader.pc = "return"
    /\ \/ current_slot = 0
       \/ current_slot < curr_epoch_slot_start
       \/ current_slot >= next_epoch_slot_start )
  => reader.leaders = <<>>

\* C12 witness: a call returns in the genesis epoch with current_slot still 0,
\* where slot index 0 has a leader with a known socket.
C12_Witness ==
  /\ reader.pc = "return"
  /\ current_slot = 0
  /\ curr_epoch_slot_start = 0
  /\ reader.start = 0 /\ reader.end = PREWARM_END
  /\ leader_sockets[curr_schedule[0]] # NoSocket
  /\ reader.leaders = <<>>

\* C13: every entry comes from a target slot current_slot + i below next_start
\* and inside the 64-bit range, with i in [start, end); no pass of the loop runs
\* for a target at or beyond next_start; and from current_slot = next_start - 1
\* a call with start 0 returns at most the leader of that one slot.
C13_NeverCrossesEpoch ==
  /\ \A target \in reader.targets :
       /\ target < next_epoch_slot_start
       /\ target <= U64_MAX
       /\ target - reader.curr_slot >= reader.start
       /\ target - reader.curr_slot < reader.end
  /\ reader.i > reader.start =>
       /\ reader.curr_slot + reader.i - 1 < next_epoch_slot_start
       /\ reader.curr_slot + reader.i - 1 <= U64_MAX
  /\ ( /\ reader.pc = "return"
       /\ current_slot + 1 = next_epoch_slot_start
       /\ reader.start = 0 )
     => /\ Len(reader.leaders) <= 1
        /\ reader.targets \subseteq {current_slot}

\* C13 witness: the prewarmer's call from the last slot of the epoch returns
\* the one leader of that slot.
C13_Witness ==
  /\ reader.pc = "return"
  /\ current_slot + 1 = next_epoch_slot_start
  /\ reader.start = 0 /\ reader.end = PREWARM_END
  /\ Len(reader.leaders) = 1
  /\ reader.targets = {current_slot}

\* ------------------------------------------------ claims: session and fanout

\* C14: a payload over the size cap, or one that is no transaction, does not
\* end the session: handle_session does not return with the read or
\* deserialize error.
C14_BadPayloadKeepsSession ==
  session.pc = "failed" =>
    session.result \notin {"Failed to read transaction", "Failed to deserialize transaction"}

\* C15: when get_leaders() returned the empty list for a payload, the reply
\* written on the client stream is the line "ERROR: no leaders".
C15_NoLeadersReply ==
  (session.pc = "finish_reply" /\ session.leaders = <<>>) =>
    session.reply = "ERROR: no leaders"

\* C16: when send_transaction has its result, every leader returned by
\* get_leaders has been attempted, whatever failed for the leaders before.
C16_EveryLeaderAttempted ==
  session.pc = "reply" => session.i > Len(session.leaders)

\* C17: a get_or_create_connection lookup that finds the cached connection of
\* its socket with a close reason leaves no entry for the socket in the table.
C17_ClosedEntryRemovedAtLookup ==
  [][\A t \in Dialers :
       (/\ dialers[t].pc = "lookup"
        /\ dialers'[t].pc # "lookup"
        /\ IsOpen(connections[dialers[t].validator])
        /\ connections[dialers[t].validator].conn \in quic.closed)
       => connections'[dialers[t].validator] = Absent]_vars

\* C18: a step of the session never changes the connections table, the
\* connections or a dial in progress, and the lookup of send_transaction yields
\* a connection exactly when the entry of the leader's socket is open without
\* close reason, and then that entry's connection.
C18_LookupNeverDials ==
  [][session' # session =>
       /\ poolVars' = poolVars
       /\ (session.pc = "next_leader" /\ session.i <= Len(session.leaders)) =>
            LET entry == connections[session.leaders[session.i][2]]
            IN  /\ session'.pc = "open_uni" <=>
                     (entry.present /\ entry.conn # 0 /\ entry.conn \notin quic.closed)
                /\ session'.pc = "open_uni" => session'.conn = entry.conn]_vars

\* C18 witness: for one payload the lookup yielded nothing for the first
\* leader, whose entry is the sentinel, and a connection for the second.
C18_Witness ==
  /\ session.pc = "open_uni"
  /\ session.i = 2
  /\ connections[session.leaders[1][2]] = Pending
  /\ connections[session.leaders[2][2]].conn = session.conn

\* C19: when close_all returns the table is empty, and every connection the
\* table held has a close reason: the clean-shutdown code 0 if it had none
\* before.
C19_CloseAllClosesAndClears ==
  [][quic'.close_alls # quic.close_alls =>
       /\ \A s \in PoolSockets : ~connections'[s].present
       /\ \A s \in PoolSockets : IsOpen(connections[s]) =>
            /\ connections[s].conn \in quic'.closed
            /\ connections[s].conn \notin quic.closed =>
                 connections[s].conn \in quic'.shutdown]_vars

\* C19 witness: close_all has returned on a table that held a sentinel, a live
\* connection and a closed one.
C19_Witness ==
  /\ quic.close_alls = 1
  /\ ConnectionCount = 0
  /\ quic.shutdown # {}
  /\ quic.closed \ quic.shutdown # {}
  /\ \E t \in Dialers : dialers[t].pc \in {"connect", "handshake", "zero_rtt"}

\* C20: all the socket lookups of one get_future_leaders call read one value
\* of the registry, and the registry is always a whole cluster-node list (or
\* the map of new()): no entry of an older list survives a refresh.
C20_RegistryAtomicForReaders ==
  /\ Cardinality(reader.sockets_read) <= 1
  /\ leader_sockets \in RegistrySnapshots

\* C20 witness: a call resolved two identities against a refreshed registry
\* that no longer maps identity A.
C20_Witness ==
  /\ reader.pc = "return"
  /\ Cardinality(reader.seen) = 2
  /\ reader.sockets_read = {leader_sockets}
  /\ leader_sockets \in NodeSnapshots
  /\ leader_sockets["A"] = NoSocket

\* ------------------------------------------- claims: ScheduleTracker, alone

MaybeRotateReturned == listener.pc = "release"

\* C21: a maybe_rotate call with current_slot < next_start returns false, makes
\* no fetch and leaves curr_start, next_start, both maps and slots_in_epoch as
\* they were, at whichever call of a sequence.
C21_NoRotationInsideEpoch ==
  (MaybeRotateReturned /\ listener.curr_slot < listener.pre_next) =>
    /\ ~listener.rotated
    /\ listener.fetched = "none"
    /\ curr_epoch_slot_start = listener.pre_curr
    /\ next_epoch_slot_start = listener.pre_next
    /\ curr_schedule = listener.pre_curr_map
    /\ next_schedule = listener.pre_next_map
    /\ slots_in_epoch = EpochLen

\* C21 witness: the third call of a sequence returns false after an earlier
\* call has rotated.
C21_Witness ==
  /\ MaybeRotateReturned
  /\ listener.curr_slot < listener.pre_next
  /\ feed.sent = 3
  /\ listener.pre_curr > EpochLen
  /\ ~listener.rotated

\* C22: a maybe_rotate call with current_slot >= next_start whose fetch
\* succeeds returns true after exactly one shift: curr_start is the old
\* next_start, next_start the old one plus slots_in_epoch, curr_map the old
\* next_map (so every index resolves to the old next_map's leader) and next_map
\* the schedule fetched for the new next_start.
C22_OneShiftPerRotation ==
  (/\ MaybeRotateReturned
   /\ listener.curr_slot >= listener.pre_next
   /\ listener.fetched = "ok") =>
    /\ listener.rotated
    /\ curr_epoch_slot_start = listener.pre_next
    /\ next_epoch_slot_start = listener.pre_next + slots_in_epoch
    /\ curr_schedule = listener.pre_next_map
    /\ \A i \in SlotIndices :
         GetLeaderForSlotIndex(curr_schedule, i) = listener.pre_next_map[i]
    /\ next_schedule = ClusterSchedule(next_epoch_slot_start)

\* C22 witness: a call made two epochs ahead of the tracker has returned true
\* with the tracker one epoch further.
C22_Witness ==
  /\ MaybeRotateReturned
  /\ listener.rotated
  /\ listener.curr_slot = listener.pre_next + slots_in_epoch
  /\ curr_epoch_slot_start = listener.pre_next
  /\ ~IsEmptySchedule(curr_schedule)

\* C23: slot_to_index(slot) is slot - curr_start for curr_start <= slot <
\* next_start and None for every other slot: 0 at curr_start,
\* slots_in_epoch - 1 at next_start - 1, None at curr_start - 1 and at
\* next_start.
C23_SlotToIndexInRangeOnly ==
  (listener.pc = "idle" /\ listener.query >= 0) =>
    /\ (curr_epoch_slot_start <= listener.query /\ listener.query < next_epoch_slot_start)
         => listener.index = listener.query - curr_epoch_slot_start
    /\ (listener.query < curr_epoch_slot_start \/ listener.query >= next_epoch_slot_start)
         => listener.index = -1
    /\ listener.query = curr_epoch_slot_start => listener.index = 0
    /\ listener.query = next_epoch_slot_start - 1 => listener.index = slots_in_epoch - 1
    /\ listener.query = curr_epoch_slot_start - 1 => listener.index = -1
    /\ listener.query = next_epoch_slot_start => listener.index = -1

\* C23 witness: after a rotation slot_to_index was asked about next_start and
\* answered None.
C23_Witness ==
  /\ listener.pc = "idle"
  /\ curr_epoch_slot_start > EpochLen
  /\ listener.query = next_epoch_slot_start
  /\ listener.index = -1

\* ---------------------------------------------------- claims: forwarding

\* C24: every unidirectional stream the fanout wrote for a payload carries the
\* bytes read from the client's stream, and no leader got two streams for the
\* payload.
C24_ForwardedBytesIdentical ==
  /\ \A k \in 1 .. Len(session.streams) : session.streams[k][2] = session.payload
  /\ \A j, k \in 1 .. Len(session.streams) :
       session.streams[j][1] = session.streams[k][1] => j = k

\* C24 witness: one payload has been written to the streams of two leaders.
C24_Witness ==
  /\ Len(session.streams) = 2
  /\ session.delivered = {"A", "B"}
  /\ session.payload = "transaction"

\* C25 (as stated): whatever deserialization says of a payload within the size
\* cap, handle_session goes on to send_transaction with it.
C25_InvalidTransactionForwarded ==
  [][(session.pc = "deserialize" /\ session'.pc # "deserialize")
       => session'.pc = "get_leaders"]_vars

\* C25 (amended): a payload that does not deserialize as a transaction is never
\* handed to send_transaction, and no stream to a leader is written for it.
C25_InvalidTransactionNotForwarded ==
  session.payload = "garbage" =>
    /\ session.pc \in {"read_to_end", "deserialize", "failed"}
    /\ session.leaders = <<>>
    /\ session.streams = <<>>

\* C25 witness: handle_session has returned with the deserialization error
\* while a leader's connection was open in the pool.
C25_Witness ==
  /\ session.payload = "garbage"
  /\ session.pc = "failed"
  /\ session.result = "Failed to deserialize transaction"
  /\ \E s \in PoolSockets :
       IsOpen(connections[s]) /\ connections[s].conn \notin quic.closed

\* ------------------------------------------------- claims: background tasks

\* C26: the slot listener task never ends: whatever fails, the subscription
\* included, it is still there to process later notifications.
C26_ListenerNeverExits == listener.pc # "stopped"

\* ----------------------------------------------- claims: SlotsTracker, more

\* C27: a record call with a notification that is neither FirstShredReceived
\* nor Completed reports "ignored" and leaves the ring and the cached slot as
\* they were.
C27_IgnoredKindsChangeNothing ==
  [][(feed'.sent # feed.sent
      /\ listener'.kind \notin {"FirstShredReceived", "Completed"})
       => /\ listener'.last = "ignored"
          /\ recent_events' = recent_events
          /\ current_slot' = current_slot]_vars

\* C27 witness: the third notification was of an ignored kind and arrived on
\* a ring that held events.
C27_Witness ==
  /\ feed.sent = 3
  /\ listener.kind = "CreatedBank"
  /\ listener.last = "ignored"
  /\ Len(recent_events) = 2

\* C28: after any record calls the ring holds at most 48 events and
\* current_slot is what the estimator gives on the ring, or 0 on the empty ring.
C28_RingBoundedSlotIsEstimate ==
  /\ Len(recent_events) <= RECENT_LEADER_SLOTS_CAPACITY
  /\ recent_events = <<>> => current_slot = 0
  /\ recent_events # <<>> =>
       LET est == EstimateCurrentSlot(recent_events, overflow_checks)
       IN  ~est.panic /\ current_slot = est.slot

\* The reference estimator, by ranks instead of a sort: an event's key orders
\* it by slot, Start before End.
RefKey(e) == 2 * e.slot + (IF e.is_start THEN 0 ELSE 1)

RefKeys(ring) == {RefKey(ring[k]) : k \in 1 .. Len(ring)}

RefRankBelow(ring, key) == Cardinality({k \in 1 .. Len(ring) : RefKey(ring[k]) < key})

RefRankUpTo(ring, key) == Cardinality({k \in 1 .. Len(ring) : RefKey(ring[k]) <= key})

RefMedianKey(ring) ==
  CHOOSE key \in RefKeys(ring) :
    /\ RefRankBelow(ring, key) <= (Len(ring) - 1) \div 2
    /\ (Len(ring) - 1) \div 2 < RefRankUpTo(ring, key)

RefCap(ring) ==
  (RefMedianKey(ring) \div 2) + ((Len(ring) - 1) - ((Len(ring) - 1) \div 2))
    + MAX_SLOT_SKIP_DISTANCE

RefSelectedKey(ring) ==
  CHOOSE key \in RefKeys(ring) :
    /\ key \div 2 <= RefCap(ring)
    /\ \A other \in RefKeys(ring) : other \div 2 <= RefCap(ring) => other <= key

ReferenceEstimate(ring) ==
  LET key == RefSelectedKey(ring)
  IN  IF key % 2 = 0 THEN key \div 2
      ELSE IF key \div 2 = U64_MAX THEN U64_MAX
      ELSE (key \div 2) + 1

\* C29: on every non-empty ring the estimator returns, and returns what the
\* reference estimator gives (which looks at the ring's events, not at their
\* order of insertion).
C29_EstimateIsReference ==
  recent_events # <<>> =>
    /\ listener.pc # "panicked"
    /\ current_slot = ReferenceEstimate(recent_events)

\* ------------------------------------------ claims: get_future_leaders, more

\* The reference list: the target slots of the call below next_start, of these
\* the first of each identity, of these the ones whose identity has a socket.
RefTargets ==
  {t \in (current_slot + reader.start) .. (current_slot + reader.end - 1) :
     t < next_epoch_slot_start /\ t <= U64_MAX}

RefLeaderAt(t) == curr_schedule[t - curr_epoch_slot_start]

RefFirst ==
  {t \in RefTargets :
     /\ RefLeaderAt(t) # NoLeader
     /\ \A u \in RefTargets : u < t => RefLeaderAt(u) # RefLeaderAt(t)}

RefEmitted == {t \in RefFirst : leader_sockets[RefLeaderAt(t)] # NoSocket}

RefNth(k) == CHOOSE t \in RefEmitted : Cardinality({u \in RefEmitted : u < t}) = k - 1

ReturnsReferenceList ==
  /\ Len(reader.leaders) = Cardinality(RefEmitted)
  /\ \A k \in 1 .. Len(reader.leaders) :
       reader.leaders[k] =
         <<RefLeaderAt(RefNth(k)), leader_sockets[RefLeaderAt(RefNth(k))], current_slot>>

SlotInsideCurrentEpoch ==
  curr_epoch_slot_start <= current_slot /\ current_slot < next_epoch_slot_start

\* C30 (as stated): whenever current_slot is inside the current epoch, a call
\* returns the reference list.
C30_ReturnsScheduledLeaders ==
  (reader.pc = "return" /\ SlotInsideCurrentEpoch) => ReturnsReferenceList

\* C30 (amended): whenever current_slot is inside the current epoch and is not
\* 0, a call returns the reference list.
C30_ReturnsScheduledLeadersPastSlotZero ==
  (reader.pc = "return" /\ SlotInsideCurrentEpoch /\ current_slot # 0)
    => ReturnsReferenceList

\* C30 witness: get_leaders(), called at the first of two slots of one leader,
\* returns that leader once.
C30_Witness ==
  /\ reader.pc = "return"
  /\ reader.start = 0 /\ reader.end = GET_LEADERS_END
  /\ current_slot = curr_epoch_slot_start /\ current_slot # 0
  /\ reader.i = 2
  /\ Len(reader.leaders) = 1

\* ------------------------------------- claims: TpuConnectionManager, more

\* C31: a call of get_or_create_connection goes on to publish an Open entry
\* (and to return Ok) only with a connection whose handshake completed, in the
\* 0-RTT branch as in the full-handshake branch; after a failed handshake it
\* goes on to remove the entry and return an error.
C31_PublishesOnlyCompletedHandshake ==
  [][\A t \in Dialers :
       (dialers[t].pc \in {"zero_rtt", "handshake"} /\ dialers'[t].pc = "publish")
         => dialers'[t].conn \notin quic'.closed]_vars

\* C38: a dial whose sentinel close_all has cleared does not publish: when it
\* completes, the table entry of its socket is left as close_all (and later
\* callers) made it.
C38_NoPublishAfterCloseAll ==
  [][\A t \in Dialers :
       (/\ dialers[t].pc = "publish"
        /\ dialers'[t].pc = "done"
        /\ quic.close_alls > 0
        /\ connections[dialers[t].validator] # Pending)
       => connections'[dialers[t].validator] = connections[dialers[t].validator]]_vars

\* ------------------------------------------ claims: epoch rotation, more

\* C32: the schedule write lock is not held while the fetch of the replacement
\* next schedule is in progress.
C32_FetchWithoutWriteLock == listener.pc = "fetch" => ~locks.schedule.writer

\* C33: between the two assignments of a shift excepted, next_start =
\* curr_start + slots_in_epoch in every state any sequence of maybe_rotate calls
\* reaches (calls that return false, that rotate, that fail in the fetch), and
\* slots_in_epoch is what construction set.
C33_EpochBoundariesOneEpochApart ==
  listener.pc # "shift_next" =>
    /\ next_epoch_slot_start = curr_epoch_slot_start + slots_in_epoch
    /\ slots_in_epoch = EpochLen

\* C33 witness: the third call of a sequence, made after a rotation, has
\* shifted the epoch and failed in the fetch.
C33_Witness ==
  /\ MaybeRotateReturned
  /\ feed.sent = 3
  /\ listener.fetched = "error"
  /\ listener.pre_curr > EpochLen
  /\ curr_epoch_slot_start = listener.pre_next
  /\ IsEmptySchedule(next_schedule)

\* The epoch start set by construction: the least curr_start ever published.
ConstructedStart ==
  CHOOSE s \in {p[1] : p \in published} : \A p \in published : s <= p[1]

EpochsBehind == (feed.base - ConstructedStart) \div EpochLen

EpochsShifted == (curr_epoch_slot_start - ConstructedStart) \div EpochLen

\* C34: with maybe_rotate called again and again with one slot that lies k
\* epochs past the constructed epoch, n returned calls have shifted min(n, k)
\* epochs, one per call; each of the first k calls fetches and returns true if
\* the fetch succeeds; every later call returns false without a fetch, with
\* curr_start <= slot < next_start.
C34_CatchUpOneEpochPerCall ==
  (listener.pc = "idle" /\ feed.base >= ConstructedStart) =>
    /\ EpochsShifted = (IF feed.sent < EpochsBehind THEN feed.sent ELSE EpochsBehind)
    /\ (feed.sent >= 1 /\ feed.sent <= EpochsBehind) =>
         /\ listener.fetched # "none"
         /\ listener.fetched = "ok" => listener.rotated
    /\ feed.sent > EpochsBehind =>
         /\ ~listener.rotated
         /\ listener.fetched = "none"
    /\ feed.sent >= EpochsBehind =>
         /\ curr_epoch_slot_start <= feed.base
         /\ feed.base < next_epoch_slot_start

\* C34 witness: a slot two epochs ahead; two calls rotated, the third returned
\* false.
C34_Witness ==
  /\ listener.pc = "idle"
  /\ feed.sent = 3
  /\ EpochsBehind = 2
  /\ EpochsShifted = 2
  /\ ~listener.rotated
  /\ ~IsEmptySchedule(curr_schedule)

\* --------------------------------------------- claims: the socket refresher

\* C35: a pass of the refresh loop whose cluster-nodes RPC fails leaves the
\* registry as it was, and the loop goes to its sleep and on to the next pass.
C35_FailedRefreshKeepsRegistry ==
  [][/\ (refresher.pc = "call" /\ refresher'.pc = "sleep" /\ refresher'.last = "error")
          => leader_sockets' = leader_sockets
     /\ refresher'.pc \in {"call", "sleep"}
     /\ (refresher.pc = "sleep" /\ refresher' # refresher) => refresher'.pc = "call"]_vars

\* C35 witness: the loop is back at its call after a failed refresh, and the
\* registry is still the node list of an earlier refresh, from which a reader
\* has resolved a leader.
C35_Witness ==
  /\ refresher.pc = "call"
  /\ refresher.last = "error"
  /\ leader_sockets \in NodeSnapshots
  /\ reader.pc = "return"
  /\ reader.leaders # <<>>

\* ------------------------------------------------- claims: the prewarmer

\* A socket the registry maps a leader to, and that parses.
PrewarmSocket == "10.0.0.1:8001"

PrewarmCalling ==
  \E t \in Dialers : dialers[t].pc = "lookup" /\ dialers[t].validator = PrewarmSocket

\* No dial to the socket is failing: none has returned an error from the dial
\* or holds a connection that is already closed.
NoFailedDial ==
  \A t \in Dialers :
    dialers[t].validator = PrewarmSocket =>
      /\ dialers[t].pc # "remove"
      /\ dialers[t].pc = "publish" => dialers[t].conn \notin quic.closed
      /\ dialers[t].pc = "done" =>
           dialers[t].result \in {"ok", "Already connecting", "none"}

PrewarmSocketOpen == GetConnection(PrewarmSocket).kind = "some"

\* C36: if the prewarmer keeps calling get_or_create_connection for a leader's
\* socket and from some point on no dial to it fails, then eventually
\* get_connection(socket) returns an open connection, whatever failed before.
C36_PrewarmEventuallyConnects ==
  ([]<>PrewarmCalling /\ <>[]NoFailedDial) => <>PrewarmSocketOpen

\* C37: a Pending entry does not stay for ever: it is eventually replaced by
\* an Open entry or removed.
C37_PendingEventuallyResolved ==
  \A s \in PoolSockets : (connections[s] = Pending) ~> (connections[s] # Pending)

\* ------------------------------------------------ claims: lock discipline

ReaderInside == reader.pc # "idle"

ListenerAtLock == listener.pc \in {"check_rotation", "rotate_epoch"}

ListenerInsideRotation == listener.pc \in {"rotate_epoch", "maybe_rotate", "shift_next", "take", "fetch", "release"}

=============================================================================
